---- MODULE Spec2Model ----
(***************************************************************************)
(* A model of the todo manager of src/todo_manager.py: the TodoManager     *)
(* store (self.todos, a list of dicts), its JSON backing file, and the     *)
(* operations add_todo, update_todo, delete_todo, complete_todo and        *)
(* show_todo, together with concurrent invocations of main() against the   *)
(* same backing file.                                                      *)
(*                                                                         *)
(* Values.  Python's None is the empty tuple; a field that holds "None or  *)
(* a value" (due_date, completed_at) holds None or the one-element tuple   *)
(* <<v>>.  datetime.now().isoformat() at clock reading t is the record     *)
(* [iso |-> t].  JSON text is a sequence of objects whose members are      *)
(* <<"null">>, <<"number", n>> or <<"string", s>>.                         *)
(***************************************************************************)
EXTENDS Integers, Sequences, FiniteSets, TLC

VARIABLES
    todos,      \* self.todos of the TodoManager instance
    file,       \* the backing file todos.json
    now,        \* the clock read by datetime.now()
    out,        \* what the last call did: its operation, outcome and file writes
    inv,        \* the concurrent invocations of main(), one per process
    saved       \* the processes that have rewritten the file, in order

vars == <<todos, file, now, out, inv, saved>>

-----------------------------------------------------------------------------
(* Bounds of the model. *)

MaxTodos == 2
MaxClock == 2

Procs == {"p1", "p2"}

-----------------------------------------------------------------------------
(* Python and JSON values. *)

None == <<>>
Some(v) == <<v>>

IsoFormat(t) == [iso |-> t]

JNull == <<"null">>
JNum(n) == <<"number", n>>
JStr(s) == <<"string", s>>

\* A variant of the dump that writes None through str(), as the text "None"
DumpOptStr(o) == IF o = None THEN JStr("None") ELSE JStr(o[1])

\* json.dump of "None or a string"
DumpOpt(o) == IF o = None THEN JNull ELSE JStr(o[1])

\* json.load of a member that is null or a string
LoadOpt(j) == IF j[1] = "null" THEN None ELSE Some(j[2])

DumpTodo(t) ==
    [id           |-> JNum(t.id),
     title        |-> JStr(t.title),
     description  |-> JStr(t.description),
     priority     |-> JStr(t.priority),
     status       |-> JStr(t.status),
     created_at   |-> JStr(t.created_at),
     due_date     |-> DumpOpt(t.due_date),
     completed_at |-> DumpOpt(t.completed_at)]

LoadTodo(j) ==
    [id           |-> j.id[2],
     title        |-> j.title[2],
     description  |-> j.description[2],
     priority     |-> j.priority[2],
     status       |-> j.status[2],
     created_at   |-> j.created_at[2],
     due_date     |-> LoadOpt(j.due_date),
     completed_at |-> LoadOpt(j.completed_at)]

\* json.dump(self.todos, f, indent=2): the text written by save_todos
Dump(ts) == [i \in 1..Len(ts) |-> DumpTodo(ts[i])]

\* The backing file: absent, present with unparsable content, or present with
\* the JSON text of a list of todos.
NoFile == [exists |-> FALSE, parsable |-> FALSE, doc |-> <<>>]
CorruptFile == [exists |-> TRUE, parsable |-> FALSE, doc |-> <<>>]
JsonFile(doc) == [exists |-> TRUE, parsable |-> TRUE, doc |-> doc]

\* load_todos: [] when the file is absent or json.load raises JSONDecodeError
LoadTodos(f) ==
    IF f.exists
    THEN IF f.parsable
         THEN [i \in 1..Len(f.doc) |-> LoadTodo(f.doc[i])]
         ELSE <<>>
    ELSE <<>>

\* save_todos: the file is overwritten with the whole collection
SaveTodos(ts) == JsonFile(Dump(ts))

-----------------------------------------------------------------------------
(* Inputs. *)

\* The arguments of add_todo: title, description, priority, due_date.
AddArgs ==
    { [title |-> "Buy milk", description |-> "", priority |-> "high",
       due_date |-> None],
      [title |-> "", description |-> "", priority |-> "medium",
       due_date |-> None],
      [title |-> "Call Bob", description |-> "about milk", priority |-> "low",
       due_date |-> Some("2026-12-31")] }

\* The ids a caller may name: those add_todo can issue, and one more.
Ids == 1..(MaxTodos + 1)

\* The keyword arguments of update_todo, each a sequence of <<key, value>> in the
\* order Python iterates kwargs.items(): any field name, and a name no todo has.
UpdateKwargs ==
    { << <<"title", "Buy milk">> >>,
      << <<"status", "completed">> >>,
      << <<"status", "pending">> >>,
      << <<"completed_at", None>> >>,
      << <<"status", "completed">>, <<"completed_at", None>> >>,
      << <<"owner", "x">> >> }

-----------------------------------------------------------------------------
(* The operations of TodoManager, as functions of the collection. *)

\* A variant of add_todo that numbers from the largest id in use
MaxId(ts) == IF ts = <<>> THEN 0 ELSE CHOOSE m \in {ts[i].id : i \in 1..Len(ts)} :
                                         \A i \in 1..Len(ts) : ts[i].id <= m

NewTodoNextId(ts, a, t) ==
    [id           |-> MaxId(ts) + 1,
     title        |-> a.title,
     description  |-> a.description,
     priority     |-> a.priority,
     status       |-> "pending",
     created_at   |-> IsoFormat(t),
     due_date     |-> a.due_date,
     completed_at |-> None]

\* The dict built by add_todo
NewTodo(ts, a, t) ==
    [id           |-> Len(ts) + 1,
     title        |-> a.title,
     description  |-> a.description,
     priority     |-> a.priority,
     status       |-> "pending",
     created_at   |-> IsoFormat(t),
     due_date     |-> a.due_date,
     completed_at |-> None]

\* self.todos.append(todo)
AddTodo(ts, a, t) == Append(ts, NewTodo(ts, a, t))

\* The positions holding a todo with the given id
Matches(ts, id) == {i \in 1..Len(ts) : ts[i].id = id}

Found(ts, id) == Matches(ts, id) # {}

\* The position at which "for todo in self.todos: if todo['id'] == todo_id" stops
FirstMatch(ts, id) == CHOOSE i \in Matches(ts, id) : \A j \in Matches(ts, id) : i <= j

\* A variant of the loop body that never stamps completed_at
ApplyKeyNoStamp(todo, key, value, t) ==
    IF key \in DOMAIN todo THEN [todo EXCEPT ![key] = value] ELSE todo

\* The body of "for key, value in kwargs.items()" in update_todo
ApplyKey(todo, key, value, t) ==
    IF key \in DOMAIN todo
    THEN LET set == [todo EXCEPT ![key] = value]
         IN  IF key = "status" /\ value = "completed"
             THEN [set EXCEPT !.completed_at = Some(IsoFormat(t))]
             ELSE set
    ELSE todo

RECURSIVE ApplyKwargs(_, _, _)
ApplyKwargs(todo, kwargs, t) ==
    IF kwargs = <<>>
    THEN todo
    ELSE ApplyKwargs(ApplyKey(todo, kwargs[1][1], kwargs[1][2], t), Tail(kwargs), t)

\* update_todo: the first todo with the id takes the changes
UpdateTodo(ts, id, kwargs, t) ==
    IF Found(ts, id)
    THEN [ts EXCEPT ![FirstMatch(ts, id)] = ApplyKwargs(@, kwargs, t)]
    ELSE ts

\* A variant of delete_todo that fills the hole with the last todo
DeleteTodoSwap(ts, id) ==
    IF Found(ts, id)
    THEN LET i == FirstMatch(ts, id)
             moved == IF i < Len(ts) THEN [ts EXCEPT ![i] = ts[Len(ts)]] ELSE ts
         IN  SubSeq(moved, 1, Len(ts) - 1)
    ELSE ts

\* A variant of delete_todo that pops the last todo with the id
DeleteTodoLast(ts, id) ==
    IF Found(ts, id)
    THEN LET i == CHOOSE k \in Matches(ts, id) : \A j \in Matches(ts, id) : j <= k
         IN  SubSeq(ts, 1, i - 1) \o SubSeq(ts, i + 1, Len(ts))
    ELSE ts

\* delete_todo: self.todos.pop(i) at the first todo with the id
DeleteTodo(ts, id) ==
    IF Found(ts, id)
    THEN LET i == FirstMatch(ts, id)
         IN  SubSeq(ts, 1, i - 1) \o SubSeq(ts, i + 1, Len(ts))
    ELSE ts

\* show_todo: the todo printed, or None when "not found" is printed
ShowTodo(ts, id) ==
    IF Found(ts, id) THEN Some(ts[FirstMatch(ts, id)]) ELSE None

\* The outcome a call on an id reports
Outcome(ts, id) == IF Found(ts, id) THEN "ok" ELSE "NotFound"

-----------------------------------------------------------------------------
(* main(): the parsed command line and its dispatch. *)

\* args of the add command: title is positional, description defaults to "",
\* priority to "medium", due_date to None
CliAdd(a) ==
    [op |-> "add", id |-> 0, title |-> Some(a.title),
     description |-> Some(a.description), priority |-> Some(a.priority),
     due_date |-> a.due_date]

\* args of the update command: each option is None unless given
CliUpdate(id, title, description, priority, due_date) ==
    [op |-> "update", id |-> id, title |-> title, description |-> description,
     priority |-> priority, due_date |-> due_date]

\* args of delete, complete and show
CliOn(op, id) ==
    [op |-> op, id |-> id, title |-> None, description |-> None,
     priority |-> None, due_date |-> None]

\* "if args.title:" and the like: None and "" are false
Truthy(o) == o # None /\ o[1] # ""

\* A variant of update_data that also sets the todo back to pending
UpdateDataReopens(c) ==
    (IF Truthy(c.title) THEN << <<"title", c.title[1]>> >> ELSE <<>>)
    \o (IF Truthy(c.description)
        THEN << <<"description", c.description[1]>> >> ELSE <<>>)
    \o (IF Truthy(c.priority) THEN << <<"priority", c.priority[1]>> >> ELSE <<>>)
    \o (IF Truthy(c.due_date) THEN << <<"due_date", c.due_date>> >> ELSE <<>>)
    \o << <<"status", "pending">> >>

\* update_data, in the order main fills it
UpdateData(c) ==
    (IF Truthy(c.title) THEN << <<"title", c.title[1]>> >> ELSE <<>>)
    \o (IF Truthy(c.description)
        THEN << <<"description", c.description[1]>> >> ELSE <<>>)
    \o (IF Truthy(c.priority) THEN << <<"priority", c.priority[1]>> >> ELSE <<>>)
    \o (IF Truthy(c.due_date) THEN << <<"due_date", c.due_date>> >> ELSE <<>>)

\* The dispatch of main on a loaded collection at clock reading t: the
\* collection it leaves, whether save_todos ran, and the message printed
MainRun(c, ts, t) ==
    CASE c.op = "add" ->
           [todos |-> AddTodo(ts, [title |-> c.title[1],
                                   description |-> c.description[1],
                                   priority |-> c.priority[1],
                                   due_date |-> c.due_date], t),
            wrote |-> TRUE, res |-> "ok"]
      [] c.op = "update" ->
           IF UpdateData(c) = <<>>
           THEN [todos |-> ts, wrote |-> FALSE, res |-> "NoFields"]
           ELSE [todos |-> UpdateTodo(ts, c.id, UpdateData(c), t),
                 wrote |-> Found(ts, c.id), res |-> Outcome(ts, c.id)]
      [] c.op = "delete" ->
           [todos |-> DeleteTodo(ts, c.id),
            wrote |-> Found(ts, c.id), res |-> Outcome(ts, c.id)]
      [] c.op = "complete" ->
           [todos |-> UpdateTodo(ts, c.id, << <<"status", "completed">> >>, t),
            wrote |-> Found(ts, c.id), res |-> Outcome(ts, c.id)]
      [] c.op \in {"list", "search", "stats"} ->
           [todos |-> ts, wrote |-> FALSE, res |-> "ok"]
      [] OTHER ->
           [todos |-> ts, wrote |-> FALSE, res |-> Outcome(ts, c.id)]

\* The command lines of the concurrent invocations
ConcCmds ==
    {CliAdd(a) : a \in AddArgs}
    \cup {CliOn(op, id) : op \in {"delete", "complete", "show"}, id \in 1..MaxTodos}
    \cup {CliUpdate(id, Some("Buy tea"), None, Some("low"), None) : id \in 1..MaxTodos}
    \cup {CliUpdate(1, Some(""), None, None, None)}

-----------------------------------------------------------------------------
(* The state after construction: TodoManager() has loaded the file. *)

\* out.was is the status, before the call, of the todo the call found.
NoOut == [op |-> "init", res |-> "ok", writes |-> 0, shown |-> None, was |-> "none"]

Was(ts, id) == IF Found(ts, id) THEN ts[FirstMatch(ts, id)].status ELSE "none"

\* What a call of update_todo, complete_todo or delete_todo on an id reports
Report(op, ts, id) ==
    [op |-> op, res |-> Outcome(ts, id),
     writes |-> IF Found(ts, id) THEN 1 ELSE 0,
     shown |-> None, was |-> Was(ts, id)]

IdleInv == [pc |-> "idle", cmd |-> CliOn("none", 0), loaded |-> <<>>,
            todos |-> <<>>, seen |-> 0, res |-> "none"]

Idle == [p \in Procs |-> IdleInv]

Init ==
    /\ file \in {NoFile, CorruptFile, JsonFile(<<>>)}
    /\ todos = LoadTodos(file)
    /\ now = 1
    /\ out = NoOut
    /\ inv = Idle
    /\ saved = <<>>

\* Time passes between two calls.
Tick ==
    /\ now < MaxClock
    /\ now' = now + 1
    /\ UNCHANGED <<todos, file, out, inv, saved>>

\* The body of add_todo
AddCall(a) ==
    /\ todos' = AddTodo(todos, a, now)
    /\ file' = SaveTodos(todos')
    /\ out' = [op |-> "add", res |-> "ok", writes |-> 1, shown |-> None,
               was |-> "none"]
    /\ UNCHANGED <<now, inv, saved>>

\* add_todo(title, description, priority, due_date), while the collection is
\* within the bound
Add(a) ==
    /\ Len(todos) < MaxTodos
    /\ AddCall(a)

\* A variant of update_todo whose save_todos sits after the loop
UpdateAlwaysSaves(op, id, kwargs) ==
    /\ todos' = UpdateTodo(todos, id, kwargs, now)
    /\ file' = SaveTodos(todos')
    /\ out' = [Report(op, todos, id) EXCEPT !.writes = 1]
    /\ UNCHANGED <<now, inv, saved>>

\* A variant of update_todo that never calls save_todos
UpdateNeverSaves(op, id, kwargs) ==
    /\ todos' = UpdateTodo(todos, id, kwargs, now)
    /\ file' = file
    /\ out' = [Report(op, todos, id) EXCEPT !.writes = 0]
    /\ UNCHANGED <<now, inv, saved>>

\* The body of update_todo, entered as op: save_todos runs only when the id
\* is found
UpdateAs(op, id, kwargs) ==
    /\ todos' = UpdateTodo(todos, id, kwargs, now)
    /\ file' = IF Found(todos, id) THEN SaveTodos(todos') ELSE file
    /\ out' = Report(op, todos, id)
    /\ UNCHANGED <<now, inv, saved>>

\* update_todo(todo_id, **kwargs)
Update(id, kwargs) == UpdateAs("update", id, kwargs)

\* complete_todo(todo_id): self.update_todo(todo_id, status="completed")
Complete(id) == UpdateAs("complete", id, << <<"status", "completed">> >>)

\* delete_todo(todo_id); out.shown is deleted_todo, the todo popped
Delete(id) ==
    /\ todos' = DeleteTodo(todos, id)
    /\ file' = IF Found(todos, id) THEN SaveTodos(todos') ELSE file
    /\ out' = [Report("delete", todos, id) EXCEPT !.shown = ShowTodo(todos, id)]
    /\ UNCHANGED <<now, inv, saved>>

\* show_todo(todo_id)
Show(id) ==
    /\ out' = [op |-> "show", res |-> Outcome(todos, id), writes |-> 0,
               shown |-> ShowTodo(todos, id), was |-> Was(todos, id)]
    /\ UNCHANGED <<todos, file, now, inv, saved>>

Next ==
    \/ Tick
    \/ \E a \in AddArgs : Add(a)
    \/ \E id \in Ids, kwargs \in UpdateKwargs : Update(id, kwargs)
    \/ \E id \in Ids : Complete(id)
    \/ \E id \in Ids : Delete(id)
    \/ \E id \in Ids : Show(id)

Spec == Init /\ [][Next]_vars

-----------------------------------------------------------------------------
(* Two invocations of main() against the same file.  Each constructs its    *)
(* TodoManager, which reads the file, and then runs its command, which      *)
(* writes the file when it changed the collection.  Nothing is locked, so   *)
(* the reads and writes of the two interleave freely.                       *)

\* Files left by earlier invocations
OneTodo == AddTodo(<<>>, CHOOSE a \in AddArgs : a.title = "Buy milk", 1)
TwoTodos == AddTodo(OneTodo, CHOOSE a \in AddArgs : a.title = "Call Bob", 1)

InitConc ==
    /\ file \in {NoFile, SaveTodos(OneTodo), SaveTodos(TwoTodos)}
    /\ todos = <<>>
    /\ now = 1
    /\ out = NoOut
    /\ inv = Idle
    /\ saved = <<>>

\* todo_manager = TodoManager(): load_todos reads the file
Start(p, c) ==
    /\ inv[p].pc = "idle"
    /\ inv' = [inv EXCEPT ![p] =
                 [pc |-> "loaded", cmd |-> c, loaded |-> LoadTodos(file),
                  todos |-> LoadTodos(file), seen |-> Len(saved), res |-> "none"]]
    /\ UNCHANGED <<todos, file, now, out, saved>>

\* A variant of the dispatch that reads the file again before the command
RunReloads(p) ==
    /\ inv[p].pc = "loaded"
    /\ LET r == MainRun(inv[p].cmd, LoadTodos(file), now)
       IN  /\ inv' = [inv EXCEPT ![p].pc = "done", ![p].todos = r.todos,
                                 ![p].res = r.res]
           /\ file' = IF r.wrote THEN SaveTodos(r.todos) ELSE file
           /\ saved' = IF r.wrote THEN Append(saved, p) ELSE saved
    /\ UNCHANGED <<todos, now, out>>

\* The dispatch of main on the collection loaded at construction, and the
\* save_todos it ends in
Run(p) ==
    /\ inv[p].pc = "loaded"
    /\ LET r == MainRun(inv[p].cmd, inv[p].todos, now)
       IN  /\ inv' = [inv EXCEPT ![p].pc = "done", ![p].todos = r.todos,
                                 ![p].res = r.res]
           /\ file' = IF r.wrote THEN SaveTodos(r.todos) ELSE file
           /\ saved' = IF r.wrote THEN Append(saved, p) ELSE saved
    /\ UNCHANGED <<todos, now, out>>

NextConc ==
    \/ Tick
    \/ \E p \in Procs, c \in ConcCmds : Start(p, c)
    \/ \E p \in Procs : Run(p)

SpecConc == InitConc /\ [][NextConc]_vars

-----------------------------------------------------------------------------
(* The claims, checked under Spec. *)

Mutating == {"add", "update", "complete", "delete"}

\* C1: no two stored todos have the same id.
IdsUnique ==
    \A i, j \in 1..Len(todos) : i # j => todos[i].id # todos[j].id

\* C2: right after add_todo, show_todo on the new todo's id shows the new todo,
\* which is pending and has no completed_at.
AddThenGet ==
    out.op = "add" =>
        LET new == todos[Len(todos)]
        IN  /\ ShowTodo(todos, new.id) = Some(new)
            /\ new.status = "pending"
            /\ new.completed_at = None

\* C3: delete_todo on a stored id removes one todo, and show_todo on that id
\* then reports not found.
DeleteThenGet ==
    [][\A id \in Ids :
         (Found(todos, id) /\ Delete(id)) =>
             /\ Len(todos') = Len(todos) - 1
             /\ ShowTodo(todos', id) = None]_vars

\* C5: a stored todo has a completed_at exactly when its status is completed.
CompletedAtIffCompleted ==
    \A i \in 1..Len(todos) :
        (todos[i].completed_at # None) <=> (todos[i].status = "completed")

\* C6: after a successful add, update, complete or delete the call has
\* rewritten the file once, with the whole collection as it now stands.
WriteThrough ==
    (out.op \in Mutating /\ out.res = "ok") =>
        /\ out.writes = 1
        /\ file = JsonFile(Dump(todos))
        /\ LoadTodos(file) = todos

WriteThroughWitness ==
    /\ out.op = "update"
    /\ out.res = "ok"
    /\ Len(todos) = 2
    /\ \E i \in 1..Len(todos) : todos[i].status = "completed"

\* C7: update, delete, complete and show on an id no todo holds report not
\* found, leave the collection as it was and do not write the file.
NotFoundUnchanged ==
    [][\A id \in Ids :
         (/\ ~Found(todos, id)
          /\ \/ Delete(id)
             \/ Complete(id)
             \/ Show(id)
             \/ \E kwargs \in UpdateKwargs : Update(id, kwargs)) =>
             /\ out'.res = "NotFound"
             /\ out'.writes = 0
             /\ todos' = todos
             /\ file' = file]_vars

NotFoundWitness ==
    /\ out.op = "update"
    /\ out.res = "NotFound"
    /\ Len(todos) = 1
    /\ file = JsonFile(Dump(todos))

\* C8: add_todo with an empty title reports a validation error and stores
\* nothing.
EmptyTitleRejected ==
    [][\A a \in AddArgs :
         (a.title = "" /\ Add(a)) =>
             /\ out'.res = "ValidationError"
             /\ todos' = todos
             /\ file' = file]_vars

\* C9: add_todo appends one todo, whose id is the number of todos stored
\* before the call plus one.
IdIsCountPlusOne ==
    [][\A a \in AddArgs :
         Add(a) =>
             /\ Len(todos') = Len(todos) + 1
             /\ SubSeq(todos', 1, Len(todos)) = todos
             /\ todos'[Len(todos')].id = Len(todos) + 1]_vars

\* An add after a delete: the one stored todo has id 2 and the new one takes 2.
IdIsCountPlusOneWitness ==
    /\ out.op = "add"
    /\ Len(todos) = 2
    /\ todos[1].id = 2
    /\ todos[2].id = 2

\* C10: complete_todo on a stored id leaves the todo it found completed, with
\* a completed_at, whether or not it was completed before.
CompleteCompletes ==
    [][\A id \in Ids :
         (Found(todos, id) /\ Complete(id)) =>
             LET i == FirstMatch(todos, id)
             IN  /\ Len(todos') = Len(todos)
                 /\ todos'[i].id = id
                 /\ todos'[i].status = "completed"
                 /\ todos'[i].completed_at # None]_vars

\* A second complete_todo on a todo that was completed already.
CompleteTwiceWitness ==
    /\ out.op = "complete"
    /\ out.res = "ok"
    /\ out.was = "completed"
    /\ \E i \in 1..Len(todos) :
           todos[i].status = "completed" /\ todos[i].completed_at # None

-----------------------------------------------------------------------------
(* The claims, checked under SpecConc. *)

\* Both invocations loaded before either saved, both reported success, and p
\* saved before q.
Raced(p, q) ==
    /\ p # q
    /\ saved = <<p, q>>
    /\ inv[p].seen = 0
    /\ inv[q].seen = 0
    /\ inv[p].res = "ok"
    /\ inv[q].res = "ok"

\* C4: when both invocations load before either saves and both report
\* success, the file is what the one that saved last wrote: its command
\* applied to the content both loaded, without the other's mutation.
LostUpdate ==
    \A p, q \in Procs :
        Raced(p, q) =>
            /\ file = SaveTodos(inv[q].todos)
            /\ inv[p].loaded = inv[q].loaded
            /\ \E t \in 1..MaxClock :
                   LoadTodos(file) = MainRun(inv[q].cmd, inv[p].loaded, t).todos

\* Two different adds raced: the file holds one more todo than was loaded,
\* the one of the later save, and the earlier saver's todo is not in it.
LostUpdateWitness ==
    \E p, q \in Procs :
        /\ Raced(p, q)
        /\ inv[p].cmd.op = "add"
        /\ inv[q].cmd.op = "add"
        /\ inv[p].cmd.title # inv[q].cmd.title
        /\ Len(file.doc) = Len(inv[p].loaded) + 1
        /\ \A i \in 1..Len(file.doc) :
               LoadTodo(file.doc[i]) # inv[p].todos[Len(inv[p].todos)]

-----------------------------------------------------------------------------
(* Further claims, checked under Spec. *)

\* C11: complete_todo on a todo completed at an earlier clock reading keeps
\* the completed_at of the first completion.
NoRestamp ==
    [][\A id \in Ids :
         (/\ Found(todos, id)
          /\ todos[FirstMatch(todos, id)].status = "completed"
          /\ todos[FirstMatch(todos, id)].completed_at # None
          /\ todos[FirstMatch(todos, id)].completed_at[1].iso < now
          /\ Complete(id)) =>
             todos'[FirstMatch(todos, id)].completed_at
                 = todos[FirstMatch(todos, id)].completed_at]_vars

-----------------------------------------------------------------------------
(* update_todo with keyword arguments that name id and created_at. *)

IdentKwargs ==
    { << <<"id", MaxTodos + 1>> >>,
      << <<"created_at", IsoFormat(MaxClock)>> >>,
      << <<"title", "Buy milk">> >>,
      << <<"title", "Call Bob">>, <<"id", 1>> >> }

NextIdent ==
    \/ \E a \in AddArgs : Add(a)
    \/ \E id \in Ids, kwargs \in IdentKwargs : Update(id, kwargs)
    \/ \E id \in Ids : Complete(id)

SpecIdent == Init /\ [][NextIdent]_vars

\* C12: no update_todo or complete_todo call changes the id or the created_at
\* of a stored todo.
IdentityImmutable ==
    [][\A id \in Ids :
         (Complete(id) \/ \E kwargs \in IdentKwargs : Update(id, kwargs)) =>
             /\ Len(todos') = Len(todos)
             /\ \A i \in 1..Len(todos) :
                    /\ todos'[i].id = todos[i].id
                    /\ todos'[i].created_at = todos[i].created_at]_vars

-----------------------------------------------------------------------------
(* A fresh TodoManager on the same file. *)

\* A variant of load_todos without the try/except and the exists() test
LoadOutcomeRaises(f) ==
    IF f.exists
    THEN IF f.parsable THEN "ok" ELSE "JSONDecodeError"
    ELSE "FileNotFoundError"

\* How load_todos ends: it returns the list read, or it prints "Error reading
\* todos file. Creating new file." and returns [], or (no file) returns []
LoadOutcome(f) ==
    IF f.exists
    THEN IF f.parsable THEN "ok" ELSE "recovered"
    ELSE "ok"

\* TodoManager(): self.todos = self.load_todos()
Restart ==
    /\ todos' = LoadTodos(file)
    /\ out' = [op |-> "load", res |-> LoadOutcome(file), writes |-> 0,
               shown |-> None, was |-> "none"]
    /\ UNCHANGED <<file, now, inv, saved>>

NextReload ==
    \/ \E a \in AddArgs : Add(a)
    \/ \E id \in Ids, kwargs \in UpdateKwargs : Update(id, kwargs)
    \/ \E id \in Ids : Complete(id)
    \/ \E id \in Ids : Delete(id)
    \/ Restart

SpecReload == Init /\ [][NextReload]_vars

\* C13: a fresh TodoManager loads from the file the collection the last
\* instance holds, field for field and in the same order; save then load is
\* the identity.
ReloadEquivalence ==
    [][Restart =>
         /\ todos' = todos
         /\ LoadTodos(SaveTodos(todos)) = todos]_vars

ReloadWitness ==
    /\ out.op = "load"
    /\ Len(todos) = 2
    /\ \E i \in 1..Len(todos) : todos[i].completed_at # None
    /\ \E i \in 1..Len(todos) : todos[i].completed_at = None
    /\ \E i \in 1..Len(todos) : todos[i].due_date # None

-----------------------------------------------------------------------------
(* The queries: list_todos, search_todos, get_statistics. *)

\* The characters of the texts in use
Chars(s) ==
    CASE s = "" -> <<>>
      [] s = "Buy milk" -> <<"B", "u", "y", " ", "m", "i", "l", "k">>
      [] s = "Call Bob" -> <<"C", "a", "l", "l", " ", "B", "o", "b">>
      [] s = "about milk" -> <<"a", "b", "o", "u", "t", " ", "m", "i", "l", "k">>
      [] s = "Buy tea" -> <<"B", "u", "y", " ", "t", "e", "a">>
      [] s = "MILK" -> <<"M", "I", "L", "K">>
      [] s = "bob" -> <<"b", "o", "b">>
      [] s = "tea" -> <<"t", "e", "a">>

UpperCase == <<"A", "B", "C", "D", "E", "F", "G", "H", "I", "J", "K", "L", "M",
               "N", "O", "P", "Q", "R", "S", "T", "U", "V", "W", "X", "Y", "Z">>
LowerCase == <<"a", "b", "c", "d", "e", "f", "g", "h", "i", "j", "k", "l", "m",
               "n", "o", "p", "q", "r", "s", "t", "u", "v", "w", "x", "y", "z">>

LowerChar(c) ==
    IF \E i \in 1..Len(UpperCase) : UpperCase[i] = c
    THEN LowerCase[CHOOSE i \in 1..Len(UpperCase) : UpperCase[i] = c]
    ELSE c

\* str.lower()
Lower(cs) == [i \in 1..Len(cs) |-> LowerChar(cs[i])]

\* needle in hay
Contains(hay, needle) ==
    \E k \in 0..(Len(hay) - Len(needle)) :
        SubSeq(hay, k + 1, k + Len(needle)) = needle

\* search_todos: matching_todos
SearchTodos(ts, query) ==
    LET q == Lower(Chars(query))
        Hit(todo) == \/ Contains(Lower(Chars(todo.title)), q)
                     \/ Contains(Lower(Chars(todo.description)), q)
    IN  SelectSeq(ts, Hit)

\* A variant of list_todos whose priority filter starts again from self.todos
ListTodosLastFilter(ts, status, priority) ==
    LET ByStatus(todo) == todo.status = status[1]
        ByPriority(todo) == todo.priority = priority[1]
    IN  IF Truthy(priority) THEN SelectSeq(ts, ByPriority)
        ELSE IF Truthy(status) THEN SelectSeq(ts, ByStatus) ELSE ts

\* list_todos: filtered_todos; a filter that is None (or "") is not applied
ListTodos(ts, status, priority) ==
    LET ByStatus(todo) == todo.status = status[1]
        ByPriority(todo) == todo.priority = priority[1]
        first == IF Truthy(status) THEN SelectSeq(ts, ByStatus) ELSE ts
    IN  IF Truthy(priority) THEN SelectSeq(first, ByPriority) ELSE first

\* A variant of the completion rate that cuts the second decimal off
RateTenthsTruncated(completed, total) == (1000 * completed) \div total

\* completed/total*100 formatted with .1f, in tenths of a percent: the nearest
\* tenth, a tie going to the even one
RateTenths(completed, total) ==
    LET q == (1000 * completed) \div total
        r == (1000 * completed) % total
    IN  IF 2 * r < total THEN q
        ELSE IF 2 * r > total THEN q + 1
        ELSE IF q % 2 = 0 THEN q ELSE q + 1

\* get_statistics: the numbers printed; rate is None when "No todos" is printed
GetStatistics(ts) ==
    LET IsCompleted(todo) == todo.status = "completed"
        total == Len(ts)
        completed == Len(SelectSeq(ts, IsCompleted))
    IN  [total |-> total,
         completed |-> completed,
         pending |-> total - completed,
         rate |-> IF total > 0 THEN Some(RateTenths(completed, total)) ELSE None,
         priorities |-> [p \in {ts[i].priority : i \in 1..Len(ts)} |->
                            Cardinality({i \in 1..Len(ts) : ts[i].priority = p})]]

StatusFilters == {None, Some("pending"), Some("completed")}
PriorityFilters == {None, Some("low"), Some("medium"), Some("high")}
Queries == {"", "MILK", "bob", "tea"}

\* The collections the queries are run on hold up to MaxListed todos.
MaxListed == 3

\* A variant of list_todos that filters self.todos in place
ListFiltersInPlace(status, priority) ==
    /\ todos' = ListTodos(todos, status, priority)
    /\ out' = [op |-> "list", res |-> "ok", writes |-> 0,
               shown |-> ListTodos(todos, status, priority), was |-> "none"]
    /\ UNCHANGED <<file, now, inv, saved>>

\* list_todos(status, priority); out.shown is the list printed
List(status, priority) ==
    /\ todos' = todos
    /\ out' = [op |-> "list", res |-> "ok", writes |-> 0,
               shown |-> ListTodos(todos, status, priority), was |-> "none"]
    /\ UNCHANGED <<file, now, inv, saved>>

\* search_todos(query); out.shown is the list printed
Search(query) ==
    /\ todos' = todos
    /\ out' = [op |-> "search", res |-> "ok", writes |-> 0,
               shown |-> SearchTodos(todos, query), was |-> "none"]
    /\ UNCHANGED <<file, now, inv, saved>>

\* get_statistics(); out.shown holds the numbers printed
Stats ==
    /\ todos' = todos
    /\ out' = [op |-> "stats", res |-> "ok", writes |-> 0,
               shown |-> Some(GetStatistics(todos)), was |-> "none"]
    /\ UNCHANGED <<file, now, inv, saved>>

NextQuery ==
    \/ \E a \in AddArgs : Len(todos) < MaxListed /\ AddCall(a)
    \/ \E id \in Ids : Complete(id)
    \/ \E id \in Ids : Delete(id)
    \/ \E id \in Ids : Show(id)
    \/ \E status \in StatusFilters, priority \in PriorityFilters :
           List(status, priority)
    \/ \E query \in Queries : Search(query)
    \/ Stats

SpecQuery == Init /\ [][NextQuery]_vars

-----------------------------------------------------------------------------
(* The claims, checked under SpecQuery. *)

\* C15: list_todos, search_todos, get_statistics and show_todo leave
\* self.todos as it was and do not write the file.
ReadOnlyQueries ==
    [][(\/ \E status \in StatusFilters, priority \in PriorityFilters :
              List(status, priority)
        \/ \E query \in Queries : Search(query)
        \/ Stats
        \/ \E id \in Ids : Show(id)) =>
           /\ todos' = todos
           /\ file' = file
           /\ out'.writes = 0]_vars

\* A list that printed fewer todos than the three that stay stored.
ReadOnlyWitness ==
    /\ out.op = "list"
    /\ Len(todos) = 3
    /\ Len(out.shown) = 1
    /\ file = SaveTodos(todos)

\* The positions of the todos that match every filter given
Matching(ts, status, priority) ==
    {i \in 1..Len(ts) :
        /\ status = None \/ ts[i].status = status[1]
        /\ priority = None \/ ts[i].priority = priority[1]}

\* C16: list_todos prints exactly the stored todos that match every filter
\* given, in the order of the collection; without a filter, the collection.
ListFiltering ==
    [][\A status \in StatusFilters, priority \in PriorityFilters :
         List(status, priority) =>
             LET M == Matching(todos, status, priority)
                 r == out'.shown
             IN  /\ Len(r) = Cardinality(M)
                 /\ \A i \in M : r[Cardinality({j \in M : j <= i})] = todos[i]
                 /\ (status = None /\ priority = None) => r = todos]_vars

\* The first and third of three todos are listed, the second is not.
ListFilteringWitness ==
    /\ out.op = "list"
    /\ Len(todos) = 3
    /\ todos[1].status = "completed"
    /\ todos[2].status = "completed"
    /\ todos[3].status = "completed"
    /\ todos[2].priority # todos[1].priority
    /\ out.shown = <<todos[1], todos[3]>>

\* C18: get_statistics reports the number of todos, the number completed and
\* their difference; no rate for an empty collection, otherwise the
\* percentage completed to one decimal (1 of 3: 33.3).
StatisticsRight ==
    out.op = "stats" =>
        LET st == out.shown[1]
            total == Len(todos)
            completed ==
                Cardinality({i \in 1..Len(todos) : todos[i].status = "completed"})
            Off(r) == IF r * total >= 1000 * completed
                      THEN r * total - 1000 * completed
                      ELSE 1000 * completed - r * total
        IN  /\ st.total = total
            /\ st.completed = completed
            /\ st.pending = total - completed
            /\ total = 0 => st.rate = None
            /\ total > 0 => (st.rate # None /\ 2 * Off(st.rate[1]) <= total)
            /\ (total = 3 /\ completed = 1) => st.rate = Some(333)

StatisticsWitness ==
    /\ out.op = "stats"
    /\ Len(todos) = 3
    /\ out.shown[1].completed = 1
    /\ out.shown[1].rate = Some(333)

-----------------------------------------------------------------------------
(* The mutating calls on collections of up to MaxListed todos. *)

\* The keyword arguments of update_todo in these runs
OrderKwargs ==
    { << <<"title", "Buy milk">> >>,
      << <<"owner", "x">> >> }

NextOrder ==
    \/ \E a \in AddArgs : Len(todos) < MaxListed /\ AddCall(a)
    \/ \E id \in Ids, kwargs \in OrderKwargs : Update(id, kwargs)
    \/ \E id \in Ids : Complete(id)
    \/ \E id \in Ids : Delete(id)

SpecOrder == Init /\ [][NextOrder]_vars

\* ts without its k-th element
Without(ts, k) == SubSeq(ts, 1, k - 1) \o SubSeq(ts, k + 1, Len(ts))

\* C17: add_todo puts the new todo after the others, update_todo and
\* complete_todo leave every todo at its position, delete_todo takes one todo
\* out and keeps the others in their order; the file lists the todos in the
\* order of the collection.
InsertionOrder ==
    [][/\ \A a \in AddArgs :
            AddCall(a) =>
                /\ Len(todos') = Len(todos) + 1
                /\ \A i \in 1..Len(todos) : todos'[i] = todos[i]
       /\ \A id \in Ids :
            (Complete(id) \/ \E kwargs \in OrderKwargs : Update(id, kwargs)) =>
                /\ Len(todos') = Len(todos)
                /\ \A i \in 1..Len(todos) :
                       /\ todos'[i].id = todos[i].id
                       /\ todos'[i].created_at = todos[i].created_at
                       /\ todos'[i] # todos[i] =>
                              (i = FirstMatch(todos, id) /\ todos[i].id = id)
       /\ \A id \in Ids :
            Delete(id) =>
                IF Found(todos, id)
                THEN \E k \in 1..Len(todos) : todos' = Without(todos, k)
                ELSE todos' = todos
       /\ file' # file =>
            /\ Len(file'.doc) = Len(todos')
            /\ \A i \in 1..Len(todos') : LoadTodo(file'.doc[i]) = todos'[i]]_vars

\* The first of three todos was deleted: the second and third remain, in
\* that order.
InsertionOrderWitness ==
    /\ out.op = "delete"
    /\ out.res = "ok"
    /\ out.shown[1].id = 1
    /\ Len(todos) = 2
    /\ todos[1].id = 2
    /\ todos[2].id = 3
    /\ todos[1].title # todos[2].title
    /\ file = SaveTodos(todos)

\* C19: delete_todo takes out the first todo, in collection order, that has
\* the id, and nothing else: every other todo, a later one with the same id
\* included, stays as it was.
FirstMatchDeletion ==
    [][\A id \in Ids :
         (Found(todos, id) /\ Delete(id)) =>
             \E k \in 1..Len(todos) :
                 /\ todos[k].id = id
                 /\ \A j \in 1..(k - 1) : todos[j].id # id
                 /\ Len(todos') = Len(todos) - 1
                 /\ \A i \in 1..(k - 1) : todos'[i] = todos[i]
                 /\ \A i \in (k + 1)..Len(todos) : todos'[i - 1] = todos[i]]_vars

\* A todo was deleted and another todo with its id, a different one, is
\* still stored.
FirstMatchDeletionWitness ==
    /\ out.op = "delete"
    /\ out.res = "ok"
    /\ Len(todos) = 2
    /\ \E i \in 1..Len(todos) :
           /\ todos[i].id = out.shown[1].id
           /\ todos[i].title # out.shown[1].title

-----------------------------------------------------------------------------
(* The command surface: one run of main() after another on the same file.   *)
(* Each run constructs its TodoManager from the file and runs one command.  *)

\* args of the list and search commands
CliList(status, priority) ==
    [op |-> "list", id |-> 0, status |-> status, priority |-> priority]

CliSearch(query) == [op |-> "search", id |-> 0, query |-> query]

\* The command lines: those of the concurrent invocations, and the queries
CliCmds ==
    ConcCmds
    \cup {CliList(status, priority) :
              status \in {None, Some("completed")}, priority \in {None, Some("high")}}
    \cup {CliSearch(query) : query \in {"", "MILK"}}
    \cup {CliOn("stats", 0)}

\* What the command prints of the collection
CliOutput(c, ts) ==
    CASE c.op = "list" -> ListTodos(ts, c.status, c.priority)
      [] c.op = "search" -> SearchTodos(ts, c.query)
      [] c.op = "stats" -> Some(GetStatistics(ts))
      [] c.op = "show" -> ShowTodo(ts, c.id)
      [] OTHER -> None

\* main(): TodoManager() loads the file, the command runs, and save_todos
\* rewrites the file when the command changed the collection
Invoke(c) ==
    /\ c.op = "add" => Len(LoadTodos(file)) < MaxTodos
    /\ LET ts == LoadTodos(file)
           r == MainRun(c, ts, now)
       IN  /\ todos' = r.todos
           /\ file' = IF r.wrote THEN SaveTodos(r.todos) ELSE file
           /\ out' = [op |-> c.op, res |-> r.res,
                      writes |-> IF r.wrote THEN 1 ELSE 0,
                      shown |-> CliOutput(c, ts), was |-> Was(ts, c.id)]
    /\ UNCHANGED <<now, inv, saved>>

NextCli ==
    \/ Tick
    \/ \E c \in CliCmds : Invoke(c)

SpecCli == Init /\ [][NextCli]_vars

\* C20: over the commands of main a todo that is completed stays completed in
\* every later state in which it is still stored: a step either removes one
\* todo and leaves the completed ones among the others completed, or leaves
\* every completed todo completed at its position.
CompletedAbsorbing ==
    [][IF Len(todos') < Len(todos)
       THEN \E k \in 1..Len(todos) :
                /\ Len(todos') = Len(todos) - 1
                /\ \A i \in 1..(k - 1) :
                       /\ todos'[i].created_at = todos[i].created_at
                       /\ todos[i].status = "completed" =>
                              todos'[i].status = "completed"
                /\ \A i \in (k + 1)..Len(todos) :
                       /\ todos'[i - 1].created_at = todos[i].created_at
                       /\ todos[i].status = "completed" =>
                              todos'[i - 1].status = "completed"
       ELSE \A i \in 1..Len(todos) :
                todos[i].status = "completed" => todos'[i].status = "completed"]_vars

\* An update command on a completed todo: it has the new title and is still
\* completed.
CompletedAbsorbingWitness ==
    /\ out.op = "update"
    /\ out.res = "ok"
    /\ out.was = "completed"
    /\ \E i \in 1..Len(todos) :
           /\ todos[i].title = "Buy tea"
           /\ todos[i].status = "completed"
           /\ todos[i].completed_at # None

====
